---- MODULE Spec2Model ----
(***************************************************************************)
(* Model of the health_checker package: the audit evaluator                *)
(* (utils.query_parser, utils.threshold_checker), the database gateway     *)
(* (database.init_pool, get_conn, get_cursor, return_function_rows), the   *)
(* notifier (notification.publish_to_topic) and the orchestrator           *)
(* (main.handler).                                                         *)
(*                                                                         *)
(* Exceptions are strings naming their class; "None" is "nothing raised".  *)
(* Strings that the code transforms (status, through str.upper) are        *)
(* sequences of one-character strings.  Dates are <<year, month, day>>,    *)
(* which is what strftime("%Y-%m-%d") renders, one-to-one.                 *)
(***************************************************************************)
EXTENDS Integers, Sequences, FiniteSets, TLC

VARIABLES
    clock,          \* the UTC calendar date datetime.now(timezone.utc) falls on
    ticks,          \* midnights passed since the start (bounds the clock)
    secret,         \* lru_cache of secrets._get_secret_payload: "None" or the payload
    _POOL,          \* database._POOL: "None" or the pool, named by its db_config
    constructed,    \* number of MySQLConnectionPool constructions so far
    initFailed,     \* whether an init_pool call's construction has raised
    checkedOut,     \* connections taken from the pool and not yet returned
    conn,           \* calls made on the connection of the current checkout
    exc,            \* the exception in flight, "None" when there is none
    fetched,        \* rows cursor.fetchall() returned in the current call
    rfr,            \* arguments and outcome of the current return_function_rows call
    pc,             \* position of the single thread of control
    caller,         \* who entered: "handler", "direct", "init" or "eval"
    cycles,         \* entry-point invocations started so far
    fnIdx,          \* index in FUNCTIONS_TO_CHECK of the function being processed
    query_result,   \* handler's query_result / the evaluator's input
    errored_rows,   \* handler's errored_rows / query_parser's output
    trace,          \* steps of the current invocation, in order
    notifications,  \* publish_to_topic calls of the current invocation, in order
    lastCheck,      \* outcome of the last threshold_checker call of the invocation
    result          \* outcome of the current handler invocation

vars == <<clock, ticks, secret, _POOL, constructed, initFailed, checkedOut, conn, exc, fetched,
          rfr, pc, caller, cycles, fnIdx, query_result, errored_rows, trace,
          notifications, lastCheck, result>>

clockVars == <<clock, ticks>>
poolVars == <<secret, _POOL, constructed, initFailed>>
connVars == <<checkedOut, conn>>
evalVars == <<query_result, errored_rows, notifications, lastCheck>>

(***************************************************************************)
(* Bounds of the model.                                                    *)
(***************************************************************************)
MaxRows == 2        \* longest row set given to query_parser
MaxListLen == 5     \* longest lists given to threshold_checker directly
MaxFetch == 2       \* longest row set the database returns to the handler
MaxTicks == 1       \* UTC midnights that may pass
MaxCycles == 2      \* entry-point invocations in one warm process

(***************************************************************************)
(* config.py                                                               *)
(***************************************************************************)
\* ACCEPTABLE_ERROR_THRESHOLD = 0.8, kept as the fraction 8/10.  The code
\* compares the double len(e)/len(q) with the double 0.8; both are the
\* correctly rounded values of the fractions, so for list lengths far below
\* 2^50 the comparison agrees with the comparison of the fractions.
ThresholdNum == 8
ThresholdDen == 10

FUNCTIONS_TO_CHECK == <<"ENWL_power_scraper", "live_station_scraper">>

EMAIL_TOPIC_ARN == "arn:aws:sns:ap-southeast-2:542726313726:Email_Alerts"

(***************************************************************************)
(* Calendar: datetime arithmetic and strftime("%Y-%m-%d").                 *)
(***************************************************************************)
IsLeap(y) == (y % 4 = 0 /\ y % 100 # 0) \/ y % 400 = 0

DaysInMonth(y, m) ==
    IF m = 2 THEN (IF IsLeap(y) THEN 29 ELSE 28)
    ELSE IF m \in {4, 6, 9, 11} THEN 30 ELSE 31

\* date + timedelta(days=1)
NextDay(d) ==
    IF d[3] < DaysInMonth(d[1], d[2]) THEN <<d[1], d[2], d[3] + 1>>
    ELSE IF d[2] < 12 THEN <<d[1], d[2] + 1, 1>>
    ELSE <<d[1] + 1, 1, 1>>

\* date - timedelta(days=1)
PrevDay(d) ==
    IF d[3] > 1 THEN <<d[1], d[2], d[3] - 1>>
    ELSE IF d[2] > 1 THEN <<d[1], d[2] - 1, DaysInMonth(d[1], d[2] - 1)>>
    ELSE <<d[1] - 1, 12, 31>>

\* a < b on calendar dates
DateBefore(a, b) ==
    \/ a[1] < b[1]
    \/ a[1] = b[1] /\ a[2] < b[2]
    \/ a[1] = b[1] /\ a[2] = b[2] /\ a[3] < b[3]

\* utils.get_current_UTC_date(): datetime.now(timezone.utc).strftime("%Y-%m-%d")
get_current_UTC_date_prior == PrevDay(clock)
get_current_UTC_date == clock

\* utils.prior_day_calls: (now - timedelta(days=1)).strftime("%Y-%m-%d")
prior_date == PrevDay(clock)

\* The date the process starts on: a leap day, so that a midnight changes the month.
StartDates == {<<2024, 2, 29>>}

(***************************************************************************)
(* Strings and str.upper()                                                 *)
(***************************************************************************)
LowerLetters == <<"a","b","c","d","e","f","g","h","i","j","k","l","m",
                  "n","o","p","q","r","s","t","u","v","w","x","y","z">>
UpperLetters == <<"A","B","C","D","E","F","G","H","I","J","K","L","M",
                  "N","O","P","Q","R","S","T","U","V","W","X","Y","Z">>

UpperChar(c) ==
    IF \E i \in 1..26 : LowerLetters[i] = c
    THEN UpperLetters[CHOOSE i \in 1..26 : LowerLetters[i] = c]
    ELSE c

\* str.upper() on ASCII text
upper(s) == [i \in 1..Len(s) |-> UpperChar(s[i])]

SUCCESS_WITH_DATA ==
    <<"S","U","C","C","E","S","S","_","W","I","T","H","_","D","A","T","A">>
SUCCESS_NO_DATA ==
    <<"S","U","C","C","E","S","S","_","N","O","_","D","A","T","A">>

\* status values found in the audit table
StatusValues ==
    { SUCCESS_WITH_DATA,
      SUCCESS_NO_DATA,
      <<"S","u","c","c","e","s","s","_","W","i","t","h","_","D","a","t","a">>,
      <<"s","u","c","c","e","s","s","_","n","o","_","d","a","t","a">>,
      <<"F","A","I","L">> }

\* values of records_written and records_read
CountValues == {3, 5}

\* values of run_id
RunIds == {1, 2}

\* One row of runAudits, as the dictionary cursor returns it.
AuditRows ==
    [run_id : RunIds, records_written : CountValues,
     records_read : CountValues, status : StatusValues]

SeqsUpTo(S, n) == UNION {[1..k -> S] : k \in 0..n}

(***************************************************************************)
(* utils.query_parser                                                      *)
(***************************************************************************)
MISMATCH == "Records read != records written"
NOT_SUCCESSFUL == "Status was not successful"

\* The if / elif of the loop body: the entries one row appends.
RowErrors_status_first(row) ==
    IF /\ upper(row.status) # SUCCESS_WITH_DATA
       /\ upper(row.status) # SUCCESS_NO_DATA
    THEN <<[run_id |-> row.run_id, reason |-> NOT_SUCCESSFUL, detail |-> row.status]>>
    ELSE IF row.records_written # row.records_read
    THEN <<[run_id |-> row.run_id, reason |-> MISMATCH,
            detail |-> <<row.records_written, row.records_read>>]>>
    ELSE <<>>

RowErrors_case_sensitive(row) ==
    IF row.records_written # row.records_read
    THEN <<[run_id |-> row.run_id, reason |-> MISMATCH,
            detail |-> <<row.records_written, row.records_read>>]>>
    ELSE IF /\ row.status # SUCCESS_WITH_DATA
            /\ row.status # SUCCESS_NO_DATA
    THEN <<[run_id |-> row.run_id, reason |-> NOT_SUCCESSFUL, detail |-> row.status]>>
    ELSE <<>>

RowErrors_two_ifs(row) ==
    (IF row.records_written # row.records_read
     THEN <<[run_id |-> row.run_id, reason |-> MISMATCH,
             detail |-> <<row.records_written, row.records_read>>]>>
     ELSE <<>>)
    \o
    (IF /\ upper(row.status) # SUCCESS_WITH_DATA
        /\ upper(row.status) # SUCCESS_NO_DATA
     THEN <<[run_id |-> row.run_id, reason |-> NOT_SUCCESSFUL, detail |-> row.status]>>
     ELSE <<>>)

RowErrors(row) ==
    IF row.records_written # row.records_read
    THEN <<[run_id |-> row.run_id, reason |-> MISMATCH,
            detail |-> <<row.records_written, row.records_read>>]>>
    ELSE IF /\ upper(row.status) # SUCCESS_WITH_DATA
            /\ upper(row.status) # SUCCESS_NO_DATA
    THEN <<[run_id |-> row.run_id, reason |-> NOT_SUCCESSFUL, detail |-> row.status]>>
    ELSE <<>>

\* The for loop: errored_rows after the first n rows.
RECURSIVE ParseLoop_prepend(_, _)
ParseLoop_prepend(rows, n) ==
    IF n = 0 THEN <<>>
    ELSE RowErrors(rows[n]) \o ParseLoop_prepend(rows, n - 1)

RECURSIVE ParseLoop(_, _)
ParseLoop(rows, n) ==
    IF n = 0 THEN <<>>
    ELSE ParseLoop(rows, n - 1) \o RowErrors(rows[n])

query_parser(rows) == ParseLoop(rows, Len(rows))

(***************************************************************************)
(* utils.threshold_checker                                                 *)
(***************************************************************************)
\* error_rate >= ACCEPTABLE_ERROR_THRESHOLD, for error_rate = ne / nq, nq > 0
Breach_strict(ne, nq) == ne * ThresholdDen > ThresholdNum * nq
Breach(ne, nq) == ne * ThresholdDen >= ThresholdNum * nq

\* What one call does: the exception of the division, or the decision to
\* publish.  publishFails is the transport's answer to the publish call.
threshold_checker(errored, rows, publishFails) ==
    IF Len(rows) = 0
    THEN [raised |-> "ZeroDivisionError", publish |-> FALSE,
          ne |-> Len(errored), nq |-> 0]
    ELSE IF Breach(Len(errored), Len(rows))
    THEN [raised |-> IF publishFails THEN "ClientError" ELSE "None",
          publish |-> TRUE, ne |-> Len(errored), nq |-> Len(rows)]
    ELSE [raised |-> "None", publish |-> FALSE, ne |-> Len(errored), nq |-> Len(rows)]

\* notification.publish_to_topic(topic_ARN, error_rate, date, function_name):
\* the call as the transport receives it.
publish_to_topic(topic, ne, nq, date, function_name) ==
    [topic |-> topic, rate |-> <<ne, nq>>, date |-> date, fn |-> function_name]

(***************************************************************************)
(* The evaluator on its own: query_parser and threshold_checker applied    *)
(* to row sets drawn from bounded sets.                                    *)
(***************************************************************************)
NoConn == [acquired |-> 0, cursors |-> 0, cursorCloses |-> 0, commits |-> 0,
           rollbacks |-> 0, closes |-> 0]
NoCall == [fn |-> "None", date |-> <<0, 0, 0>>, raised |-> "None",
           returned |-> FALSE, poolWasNone |-> FALSE, bodyRaised |-> "None",
           done |-> FALSE]
NoCheck == [raised |-> "None", publish |-> FALSE, ne |-> 0, nq |-> 0,
            calls |-> 0, done |-> FALSE]

PassingRow(i) == [run_id |-> i, records_written |-> 5, records_read |-> 5,
                  status |-> SUCCESS_WITH_DATA]
FailingRow(i) == [run_id |-> i, records_written |-> 3, records_read |-> 5,
                  status |-> SUCCESS_NO_DATA]

\* Longer row sets: min(k, n) flagged rows followed by passing ones.
LongInputs ==
    {[i \in 1..n |-> IF i <= k THEN FailingRow(i) ELSE PassingRow(i)] :
        n \in 0..MaxListLen, k \in 0..MaxListLen}

EvalInputs == SeqsUpTo(AuditRows, MaxRows) \cup LongInputs

\* A list of n error entries, as a caller of threshold_checker may pass.
FlaggedList(n) == [i \in 1..n |-> [run_id |-> i, reason |-> MISMATCH, detail |-> <<3, 5>>]]

EvalFn == FUNCTIONS_TO_CHECK[1]

EvalInit ==
    /\ clock = <<2025, 12, 31>>
    /\ ticks = 0
    /\ secret = "None"
    /\ _POOL = "None"
    /\ constructed = 0
    /\ initFailed = FALSE
    /\ checkedOut = 0
    /\ conn = NoConn
    /\ exc = "None"
    /\ fetched = <<>>
    /\ rfr = NoCall
    /\ pc = "eval_input"
    /\ caller = "eval"
    /\ cycles = 0
    /\ fnIdx = 1
    /\ query_result \in EvalInputs
    /\ errored_rows = <<>>
    /\ trace = <<>>
    /\ notifications = <<>>
    /\ lastCheck = NoCheck
    /\ result = "None"

\* errored_rows = query_parser(query_result, function_name)
EvalParse ==
    /\ pc = "eval_input"
    /\ errored_rows' = query_parser(query_result)
    /\ pc' = "eval_parsed"
    /\ UNCHANGED <<clockVars, poolVars, connVars, exc, fetched, rfr, caller, cycles,
                   fnIdx, query_result, trace, notifications, lastCheck, result>>

\* The effect of threshold_checker(errored, rows, fn) on the state.
CheckEffect(errored, rows, fn, publishFails) ==
    LET out == threshold_checker(errored, rows, publishFails) IN
    /\ lastCheck' = [raised |-> out.raised, publish |-> out.publish, ne |-> out.ne,
                     nq |-> out.nq, calls |-> IF out.publish THEN 1 ELSE 0,
                     done |-> TRUE]
    /\ notifications' =
          IF out.publish
          THEN Append(notifications,
                      publish_to_topic(EMAIL_TOPIC_ARN, out.ne, out.nq,
                                       get_current_UTC_date, fn))
          ELSE notifications

\* threshold_checker(errored_rows, query_result, function_name) on the parser's output
EvalCheck ==
    /\ pc = "eval_parsed"
    /\ \E publishFails \in BOOLEAN :
          CheckEffect(errored_rows, query_result, EvalFn, publishFails)
    /\ pc' = "eval_checked"
    /\ UNCHANGED <<clockVars, poolVars, connVars, exc, fetched, rfr, caller, cycles,
                   fnIdx, query_result, errored_rows, trace, result>>

\* threshold_checker called with a list of flagged rows of the caller's choice
EvalCheckList ==
    /\ pc = "eval_input"
    /\ query_result \in LongInputs
    /\ \E n \in 0..MaxListLen, publishFails \in BOOLEAN :
          /\ errored_rows' = FlaggedList(n)
          /\ CheckEffect(FlaggedList(n), query_result, EvalFn, publishFails)
    /\ pc' = "eval_checked_list"
    /\ UNCHANGED <<clockVars, poolVars, connVars, exc, fetched, rfr, caller, cycles,
                   fnIdx, query_result, trace, result>>

EvalNext == EvalParse \/ EvalCheck \/ EvalCheckList

SpecEval == EvalInit /\ [][EvalNext]_vars

(***************************************************************************)
(* Properties of the evaluator (checked under SpecEval).                   *)
(***************************************************************************)
\* Number of elements of a sequence that satisfy P.
Count(seq, P(_)) == Cardinality({i \in DOMAIN seq : P(seq[i])})

\* The spellings of the two success statuses among StatusValues.
SuccessForms ==
    { SUCCESS_WITH_DATA,
      SUCCESS_NO_DATA,
      <<"S","u","c","c","e","s","s","_","W","i","t","h","_","D","a","t","a">>,
      <<"s","u","c","c","e","s","s","_","n","o","_","d","a","t","a">> }

Mismatched(row) == row.records_written # row.records_read
IdsOf(rows) == {rows[i].run_id : i \in DOMAIN rows}
Parsed == pc \in {"eval_parsed", "eval_checked"}

C3_MismatchFlaggedOnceWhateverStatus ==
    Parsed =>
        \A r \in IdsOf(query_result) :
            LET mism(row) == row.run_id = r /\ Mismatched(row)
                same(row) == row.run_id = r
                eMism(e) == e.run_id = r /\ e.reason = MISMATCH
                eStat(e) == e.run_id = r /\ e.reason = NOT_SUCCESSFUL
            IN /\ Count(errored_rows, eMism) = Count(query_result, mism)
               /\ (Count(query_result, mism) = Count(query_result, same)
                     => Count(errored_rows, eStat) = 0)

\* C3 witness: a mismatched row with a failure status was flagged as a mismatch.
C3_Witness ==
    /\ Parsed
    /\ \E i \in DOMAIN query_result :
          /\ Mismatched(query_result[i])
          /\ query_result[i].status = <<"F","A","I","L">>
          /\ \E j \in DOMAIN errored_rows :
                /\ errored_rows[j].run_id = query_result[i].run_id
                /\ errored_rows[j].reason = MISMATCH

\* C4: a row with records_written = records_read is flagged (status reason)
\* exactly when its status is, ignoring letter case, neither success status;
\* with a success status in any case it gets no entry.
C4_StatusFlaggedIffNotSuccess ==
    Parsed =>
        \A r \in IdsOf(query_result) :
            LET bad(row) == /\ row.run_id = r
                            /\ ~Mismatched(row)
                            /\ row.status \notin SuccessForms
                good(row) == /\ row.run_id = r
                             /\ ~Mismatched(row)
                             /\ row.status \in SuccessForms
                same(row) == row.run_id = r
                eStat(e) == e.run_id = r /\ e.reason = NOT_SUCCESSFUL
                eAny(e) == e.run_id = r
            IN /\ Count(errored_rows, eStat) = Count(query_result, bad)
               /\ (Count(query_result, good) = Count(query_result, same)
                     => Count(errored_rows, eAny) = 0)

\* C4 witness: of two rows with matching counts, the one with a lower-case
\* success status passed and the one with a failure status was flagged.
C4_Witness ==
    /\ Parsed
    /\ Len(query_result) = 2
    /\ Len(errored_rows) = 1
    /\ ~Mismatched(query_result[1]) /\ ~Mismatched(query_result[2])
    /\ query_result[1].status = <<"s","u","c","c","e","s","s","_","n","o","_","d","a","t","a">>
    /\ query_result[2].status = <<"F","A","I","L">>
    /\ errored_rows[1].run_id = query_result[2].run_id
    /\ errored_rows[1].reason = NOT_SUCCESSFUL

AllSucceeded(rows) ==
    \A i \in DOMAIN rows : ~Mismatched(rows[i]) /\ rows[i].status \in SuccessForms

\* C5: for every row set, the empty one included, whose rows all have matching
\* counts and a success status, query_parser returns no entry and
\* threshold_checker computes rate 0: it neither raises nor publishes.
C5_AllSuccessCompletesWithRateZero ==
    (pc = "eval_checked" /\ AllSucceeded(query_result)) =>
        /\ errored_rows = <<>>
        /\ lastCheck.raised = "None"
        /\ ~lastCheck.publish
        /\ Len(notifications) = 0

\* C6: the run_ids of query_parser's output are a subsequence of the run_ids
\* of its input: an order-preserving, one-to-one choice of input rows.
C6_ErrorsInInputOrder ==
    Parsed =>
        \E f \in [1..Len(errored_rows) -> 1..Len(query_result)] :
            /\ \A i, j \in 1..Len(errored_rows) : i < j => f[i] < f[j]
            /\ \A i \in 1..Len(errored_rows) :
                  errored_rows[i].run_id = query_result[f[i]].run_id

\* C6 witness: two flagged rows with different run_ids, reported in input order.
C6_Witness ==
    /\ Parsed
    /\ Len(query_result) = 2
    /\ Len(errored_rows) = 2
    /\ query_result[1].run_id # query_result[2].run_id
    /\ errored_rows[1].run_id = query_result[1].run_id
    /\ errored_rows[2].run_id = query_result[2].run_id

(***************************************************************************)
(* database.py: the pool, get_conn, get_cursor, return_function_rows.      *)
(*                                                                         *)
(* Exception classes: "MySQLError" is mysql.connector.Error, what the      *)
(* driver raises (PoolError included); "DatabaseError" is the class        *)
(* database.DatabaseError, the one get_conn's except clause names, which   *)
(* is unrelated to the driver's classes; "Exception" is any other.         *)
(***************************************************************************)
DriverErrors == {"MySQLError"}
BodyExceptions == DriverErrors \cup {"DatabaseError", "Exception"}

\* Payloads the secret store may hold for DATABASE_SECRET.
SecretPayloads == {"db_creds"}

\* Rows the table may hold for a function and a date: run_id is the key.
BadStatusRow(i) == [run_id |-> i, records_written |-> 5, records_read |-> 5,
                    status |-> <<"F","A","I","L">>]
TableRow(kind, i) ==
    IF kind = "pass" THEN PassingRow(i)
    ELSE IF kind = "mismatch" THEN FailingRow(i)
    ELSE BadStatusRow(i)
TableRows ==
    {[i \in 1..Len(ks) |-> TableRow(ks[i], i)] :
        ks \in SeqsUpTo({"pass", "mismatch", "status"}, MaxFetch)}

\* init_pool(db_config): the handle after the call; a pool is named by the
\* configuration it was constructed with.  constructionFails is the driver's
\* answer to MySQLConnectionPool(...).
init_pool_rebuild(pool, db_config, constructionFails) ==
    IF constructionFails THEN pool ELSE db_config
init_pool(pool, db_config, constructionFails) ==
    IF pool # "None" THEN pool
    ELSE IF constructionFails THEN "None"
    ELSE db_config

\* get_conn's "except DatabaseError" clause: where an exception raised at the
\* yield, or by commit, goes.
ExceptTarget_no_finally(e) == IF e = "DatabaseError" THEN "rollback" ELSE "rfr_except"
ExceptTarget(e) == IF e = "DatabaseError" THEN "rollback" ELSE "conn_close"

\* get_conn up to its yield.  Without a pool the generator returns before it
\* yields, and contextlib's __enter__ raises RuntimeError("generator didn't
\* yield").  Otherwise _POOL.get_connection() hands out a connection or raises.
GetConn_silent ==
    /\ pc = "get_conn"
    /\ IF _POOL = "None"
       THEN /\ rfr' = [rfr EXCEPT !.poolWasNone = TRUE]
            /\ pc' = "rfr_return"
            /\ UNCHANGED <<exc, connVars>>
       ELSE \/ /\ checkedOut' = checkedOut + 1
               /\ conn' = [conn EXCEPT !.acquired = @ + 1]
               /\ pc' = "cursor"
               /\ UNCHANGED <<exc, rfr>>
            \/ /\ \E e \in DriverErrors : exc' = e
               /\ pc' = "rfr_except"
               /\ UNCHANGED <<connVars, rfr>>
    /\ UNCHANGED <<clockVars, poolVars, fetched, caller, cycles, fnIdx, evalVars,
                   trace, result>>

GetConn ==
    /\ pc = "get_conn"
    /\ IF _POOL = "None"
       THEN /\ exc' = "RuntimeError"
            /\ rfr' = [rfr EXCEPT !.poolWasNone = TRUE]
            /\ pc' = "rfr_except"
            /\ UNCHANGED connVars
       ELSE \/ /\ checkedOut' = checkedOut + 1
               /\ conn' = [conn EXCEPT !.acquired = @ + 1]
               /\ pc' = "cursor"
               /\ UNCHANGED <<exc, rfr>>
            \/ /\ \E e \in DriverErrors : exc' = e
               /\ pc' = "rfr_except"
               /\ UNCHANGED <<connVars, rfr>>
    /\ UNCHANGED <<clockVars, poolVars, fetched, caller, cycles, fnIdx, evalVars,
                   trace, result>>

\* get_cursor up to its yield: connection.cursor(dictionary=True)
OpenCursor ==
    /\ pc = "cursor"
    /\ \/ /\ conn' = [conn EXCEPT !.cursors = @ + 1]
          /\ pc' = "execute"
          /\ UNCHANGED <<exc, rfr>>
       \/ \E e \in BodyExceptions :
             /\ exc' = e
             /\ rfr' = [rfr EXCEPT !.bodyRaised = e]
             /\ pc' = ExceptTarget(e)
             /\ UNCHANGED conn
    /\ UNCHANGED <<clockVars, poolVars, checkedOut, fetched, caller, cycles, fnIdx,
                   evalVars, trace, result>>

\* cursor.execute(SELECT ..., (function_name, f"{date}%"))
Execute ==
    /\ pc = "execute"
    /\ \/ /\ pc' = "fetchall"
          /\ UNCHANGED <<exc, rfr>>
       \/ \E e \in BodyExceptions :
             /\ exc' = e
             /\ rfr' = [rfr EXCEPT !.bodyRaised = e]
             /\ pc' = "cursor_close"
    /\ UNCHANGED <<clockVars, poolVars, connVars, fetched, caller, cycles, fnIdx,
                   evalVars, trace, result>>

\* result = cursor.fetchall()
FetchAll ==
    /\ pc = "fetchall"
    /\ \/ /\ fetched' \in TableRows
          /\ UNCHANGED <<exc, rfr>>
       \/ \E e \in BodyExceptions :
             /\ exc' = e
             /\ rfr' = [rfr EXCEPT !.bodyRaised = e]
             /\ UNCHANGED fetched
    /\ pc' = "cursor_close"
    /\ UNCHANGED <<clockVars, poolVars, connVars, caller, cycles, fnIdx, evalVars,
                   trace, result>>

\* get_cursor's finally: cursor.close(); then control is back in get_conn,
\* after the yield or in its except clause.
CursorClose ==
    /\ pc = "cursor_close"
    /\ conn' = [conn EXCEPT !.cursorCloses = @ + 1]
    /\ pc' = IF exc = "None" THEN "commit" ELSE ExceptTarget(exc)
    /\ UNCHANGED <<clockVars, poolVars, checkedOut, exc, fetched, rfr, caller, cycles,
                   fnIdx, evalVars, trace, result>>

\* connection.commit(), reached when the body raised nothing
Commit ==
    /\ pc = "commit"
    /\ conn' = [conn EXCEPT !.commits = @ + 1]
    /\ \/ /\ pc' = "conn_close"
          /\ UNCHANGED exc
       \/ \E e \in BodyExceptions :
             /\ exc' = e
             /\ pc' = ExceptTarget(e)
    /\ UNCHANGED <<clockVars, poolVars, checkedOut, fetched, rfr, caller, cycles,
                   fnIdx, evalVars, trace, result>>

\* except DatabaseError as e: connection.rollback(); ...; raise e
Rollback ==
    /\ pc = "rollback"
    /\ conn' = [conn EXCEPT !.rollbacks = @ + 1]
    /\ \/ UNCHANGED exc
       \/ \E e \in DriverErrors : exc' = e
    /\ pc' = "conn_close"
    /\ UNCHANGED <<clockVars, poolVars, checkedOut, fetched, rfr, caller, cycles,
                   fnIdx, evalVars, trace, result>>

\* finally: connection.close(), which returns the connection to the pool
ConnClose ==
    /\ pc = "conn_close"
    /\ conn' = [conn EXCEPT !.closes = @ + 1]
    /\ checkedOut' = checkedOut - 1
    /\ pc' = IF exc = "None" THEN "rfr_return" ELSE "rfr_except"
    /\ UNCHANGED <<clockVars, poolVars, exc, fetched, rfr, caller, cycles, fnIdx,
                   evalVars, trace, result>>

\* return_function_rows: return result
RfrReturn ==
    /\ pc = "rfr_return"
    /\ rfr' = [rfr EXCEPT !.returned = TRUE, !.done = TRUE]
    /\ IF caller = "handler"
       THEN /\ query_result' = fetched
            /\ pc' = "classify"
       ELSE /\ pc' = "idle"
            /\ UNCHANGED query_result
    /\ UNCHANGED <<clockVars, poolVars, connVars, exc, fetched, caller, cycles, fnIdx,
                   errored_rows, notifications, lastCheck, trace, result>>

\* return_function_rows: except: logger.warning(...); raise
RfrExcept ==
    /\ pc = "rfr_except"
    /\ rfr' = [rfr EXCEPT !.raised = exc, !.done = TRUE]
    /\ IF caller = "handler"
       THEN /\ pc' = "handler_except"
            /\ UNCHANGED exc
       ELSE /\ pc' = "idle"
            /\ exc' = "None"
    /\ UNCHANGED <<clockVars, poolVars, connVars, fetched, caller, cycles, fnIdx,
                   evalVars, trace, result>>

\* return_function_rows(function_name, date) called on its own
DirectCall ==
    /\ pc = "idle"
    /\ cycles < MaxCycles
    /\ cycles' = cycles + 1
    /\ caller' = "direct"
    /\ \E i \in DOMAIN FUNCTIONS_TO_CHECK :
          rfr' = [NoCall EXCEPT !.fn = FUNCTIONS_TO_CHECK[i], !.date = prior_date]
    /\ conn' = NoConn
    /\ fetched' = <<>>
    /\ pc' = "get_conn"
    /\ result' = "None"
    /\ trace' = <<>>
    /\ notifications' = <<>>
    /\ lastCheck' = NoCheck
    /\ query_result' = <<>>
    /\ errored_rows' = <<>>
    /\ fnIdx' = 1
    /\ UNCHANGED <<clockVars, poolVars, checkedOut, exc>>

(***************************************************************************)
(* main.handler                                                            *)
(***************************************************************************)
NumFunctions == Len(FUNCTIONS_TO_CHECK)

Event(op, i) == [op |-> op, fn |-> FUNCTIONS_TO_CHECK[i], date |-> <<0, 0, 0>>]

\* handler up to the loop: init_pool(get_db_config()).  get_db_config raises
\* SecretError unless the payload is cached or the store answers; init_pool
\* constructs the pool on a cold start, which may raise.
HandlerStart ==
    /\ pc = "idle"
    /\ cycles < MaxCycles
    /\ cycles' = cycles + 1
    /\ caller' = "handler"
    /\ result' = "running"
    /\ trace' = <<>>
    /\ notifications' = <<>>
    /\ lastCheck' = NoCheck
    /\ query_result' = <<>>
    /\ errored_rows' = <<>>
    /\ rfr' = NoCall
    /\ conn' = NoConn
    /\ fetched' = <<>>
    /\ fnIdx' = 1
    /\ \/ /\ secret = "None"
          /\ exc' = "SecretError"
          /\ pc' = "handler_except"
          /\ UNCHANGED poolVars
       \/ \E payload \in (IF secret = "None" THEN SecretPayloads ELSE {secret}),
             constructionFails \in BOOLEAN :
             /\ secret' = payload
             /\ _POOL' = init_pool(_POOL, payload, constructionFails)
             /\ constructed' =
                   IF _POOL' # _POOL THEN constructed + 1 ELSE constructed
             /\ initFailed' = (initFailed \/ (_POOL = "None" /\ constructionFails))
             /\ IF _POOL' = "None"
                THEN exc' = "MySQLError" /\ pc' = "handler_except"
                ELSE exc' = "None" /\ pc' = "loop"
    /\ UNCHANGED <<clockVars, checkedOut>>

\* query_result = prior_day_calls(function_name): the date is computed and
\* return_function_rows is entered.  The values the previous iteration left in
\* query_result and errored_rows are dropped here: the loop body assigns each
\* of them again before it reads it.
PriorDayCalls ==
    /\ pc = "loop"
    /\ fnIdx <= NumFunctions
    /\ trace' = Append(trace, [Event("fetch", fnIdx) EXCEPT !.date = prior_date])
    /\ rfr' = [NoCall EXCEPT !.fn = FUNCTIONS_TO_CHECK[fnIdx], !.date = prior_date]
    /\ conn' = NoConn
    /\ fetched' = <<>>
    /\ pc' = "get_conn"
    /\ query_result' = <<>>
    /\ errored_rows' = <<>>
    /\ lastCheck' = NoCheck
    /\ UNCHANGED <<clockVars, poolVars, checkedOut, exc, caller, cycles, fnIdx,
                   notifications, result>>

\* errored_rows = query_parser(query_result, function_name)
Classify ==
    /\ pc = "classify"
    /\ trace' = Append(trace, Event("classify", fnIdx))
    /\ errored_rows' = query_parser(query_result)
    /\ pc' = "check"
    /\ UNCHANGED <<clockVars, poolVars, connVars, exc, fetched, rfr, caller, cycles,
                   fnIdx, query_result, notifications, lastCheck, result>>

\* threshold_checker(errored_rows, query_result, function_name), then the
\* next iteration of the loop
Check ==
    /\ pc = "check"
    /\ trace' = Append(trace, Event("check", fnIdx))
    /\ \E publishFails \in BOOLEAN :
          CheckEffect(errored_rows, query_result, FUNCTIONS_TO_CHECK[fnIdx],
                      publishFails)
    /\ exc' = lastCheck'.raised
    /\ IF lastCheck'.raised = "None"
       THEN fnIdx' = fnIdx + 1 /\ pc' = "loop"
       ELSE fnIdx' = fnIdx /\ pc' = "handler_except"
    /\ UNCHANGED <<clockVars, poolVars, connVars, fetched, rfr, caller, cycles,
                   query_result, errored_rows, result>>

\* return {"status code": 200, ...} once the loop is exhausted
HandlerReturn ==
    /\ pc = "loop"
    /\ fnIdx > NumFunctions
    /\ result' = "200"
    /\ pc' = "idle"
    /\ UNCHANGED <<clockVars, poolVars, connVars, exc, fetched, rfr, caller, cycles,
                   fnIdx, evalVars, trace>>

\* except Exception as e: logger.error(...); raise
HandlerExcept_continue ==
    /\ pc = "handler_except"
    /\ exc' = "None"
    /\ IF trace = <<>>
       THEN result' = exc /\ pc' = "idle" /\ UNCHANGED fnIdx
       ELSE fnIdx' = fnIdx + 1 /\ pc' = "loop" /\ UNCHANGED result
    /\ UNCHANGED <<clockVars, poolVars, connVars, fetched, rfr, caller, cycles,
                   evalVars, trace>>

HandlerExcept ==
    /\ pc = "handler_except"
    /\ result' = exc
    /\ exc' = "None"
    /\ pc' = "idle"
    /\ UNCHANGED <<clockVars, poolVars, connVars, fetched, rfr, caller, cycles, fnIdx,
                   evalVars, trace>>

\* Configurations a caller may pass to init_pool.
DbConfigs == SecretPayloads \cup {"db_other"}

\* init_pool(db_config) called on its own, with a configuration of the
\* caller's choice; a construction that raises leaves _POOL as it was.
InitPoolCall ==
    /\ pc = "idle"
    /\ cycles < MaxCycles
    /\ cycles' = cycles + 1
    /\ caller' = "init"
    /\ \E db_config \in DbConfigs, constructionFails \in BOOLEAN :
          /\ _POOL' = init_pool(_POOL, db_config, constructionFails)
          /\ constructed' =
                IF _POOL' # _POOL THEN constructed + 1 ELSE constructed
          /\ initFailed' = (initFailed \/ (_POOL = "None" /\ constructionFails))
          /\ result' = IF _POOL' = "None" THEN "MySQLError" ELSE "None"
    /\ trace' = <<>>
    /\ notifications' = <<>>
    /\ lastCheck' = NoCheck
    /\ query_result' = <<>>
    /\ errored_rows' = <<>>
    /\ rfr' = NoCall
    /\ conn' = NoConn
    /\ fetched' = <<>>
    /\ fnIdx' = 1
    /\ UNCHANGED <<clockVars, secret, checkedOut, exc, pc>>

\* UTC midnight passes
Tick ==
    /\ ticks < MaxTicks
    /\ ticks' = ticks + 1
    /\ clock' = NextDay(clock)
    /\ UNCHANGED <<poolVars, connVars, exc, fetched, rfr, pc, caller, cycles, fnIdx,
                   evalVars, trace, result>>

Init ==
    /\ clock \in StartDates
    /\ ticks = 0
    /\ secret = "None"
    /\ _POOL = "None"
    /\ constructed = 0
    /\ initFailed = FALSE
    /\ checkedOut = 0
    /\ conn = NoConn
    /\ exc = "None"
    /\ fetched = <<>>
    /\ rfr = NoCall
    /\ pc = "idle"
    /\ caller = "None"
    /\ cycles = 0
    /\ fnIdx = 1
    /\ query_result = <<>>
    /\ errored_rows = <<>>
    /\ trace = <<>>
    /\ notifications = <<>>
    /\ lastCheck = NoCheck
    /\ result = "None"

Next ==
    \/ HandlerStart
    \/ PriorDayCalls
    \/ GetConn
    \/ OpenCursor
    \/ Execute
    \/ FetchAll
    \/ CursorClose
    \/ Commit
    \/ Rollback
    \/ ConnClose
    \/ RfrReturn
    \/ RfrExcept
    \/ Classify
    \/ Check
    \/ HandlerReturn
    \/ HandlerExcept
    \/ DirectCall
    \/ InitPoolCall
    \/ Tick

Spec == Init /\ [][Next]_vars

(***************************************************************************)
(* Properties of the handler and of the database gateway (under Spec).     *)
(***************************************************************************)
InHandler == caller = "handler"

FetchesOf(fn) == {k \in DOMAIN trace : trace[k].op = "fetch" /\ trace[k].fn = fn}
ChecksOf(fn) == {k \in DOMAIN trace : trace[k].op = "check" /\ trace[k].fn = fn}

\* C2 as claimed: a notification carries the function's name and the
\* prior-day date that prior_day_calls fetched the rows for.
C2_NotificationCarriesPriorDate ==
    InHandler =>
        \A n \in DOMAIN notifications :
            /\ ChecksOf(notifications[n].fn) # {}
            /\ \E k \in FetchesOf(notifications[n].fn) :
                  notifications[n].date = trace[k].date

\* C2, amended: a notification carries the name of the function whose check
\* breached and the UTC date current at that check, which is the day after
\* the fetched prior-day date, or later, and never after the clock.
C2_NotificationCarriesCheckDate ==
    InHandler =>
        \A n \in DOMAIN notifications :
            /\ ChecksOf(notifications[n].fn) # {}
            /\ \E k \in FetchesOf(notifications[n].fn) :
                  LET after == NextDay(trace[k].date)
                      date == notifications[n].date
                  IN /\ date = after \/ DateBefore(after, date)
                     /\ date = clock \/ DateBefore(date, clock)
                     /\ ticks = 0 => date = after

\* C2 witness: a breach was notified with the date of the day after the
\* fetched date, across a change of month.
C2_Witness ==
    /\ InHandler
    /\ Len(notifications) = 1
    /\ notifications[1].fn = FUNCTIONS_TO_CHECK[1]
    /\ notifications[1].date = <<2024, 3, 1>>
    /\ \E k \in FetchesOf(FUNCTIONS_TO_CHECK[1]) : trace[k].date = <<2024, 2, 29>>

StepOps == <<"fetch", "classify", "check">>

\* The steps of one cycle are a prefix of fetch, classify, check for each
\* configured function in configured order; 200 is returned only after all.
C7_Order ==
    InHandler =>
        /\ Len(trace) <= 3 * NumFunctions
        /\ \A k \in DOMAIN trace :
              /\ trace[k].op = StepOps[((k - 1) % 3) + 1]
              /\ trace[k].fn = FUNCTIONS_TO_CHECK[((k - 1) \div 3) + 1]
        /\ \A n \in DOMAIN notifications : ChecksOf(notifications[n].fn) # {}
        /\ result = "200" =>
              /\ Len(trace) = 3 * NumFunctions
              /\ exc = "None"
              /\ rfr.raised = "None"
              /\ lastCheck.raised = "None"

\* Once a step has raised, nothing more is fetched, classified or notified,
\* 200 is not returned, and the handler ends with the exception.
C7_Abort ==
    (InHandler /\ exc # "None") =>
        /\ trace' = trace
        /\ notifications' = notifications
        /\ result' # "200"
        /\ exc' = "None" => (result' = exc /\ pc' = "idle")

\* C7: in one handler cycle the functions are processed in configured order,
\* each as fetch, classify, threshold check; an exception in any step stops
\* the cycle and leaves the handler; 200 is returned only when every function
\* was processed without an exception.
C7_CycleInOrderAndAbortsOnError == [](C7_Order) /\ [][C7_Abort]_vars

\* C7 witness: the first function's check raised, the cycle ended with that
\* exception, and nothing was done for the second function.
C7_Witness ==
    /\ InHandler
    /\ pc = "idle"
    /\ result = "ZeroDivisionError"
    /\ Len(trace) = 3
    /\ trace[3].fn = FUNCTIONS_TO_CHECK[1]

\* C8: a connection taken from the pool is closed exactly once on every exit
\* path of return_function_rows; once the call has returned or raised, no
\* connection remains checked out.
C8_ConnectionClosedExactlyOnce ==
    /\ conn.closes <= conn.acquired
    /\ conn.acquired <= 1
    /\ rfr.done => (conn.closes = conn.acquired /\ checkedOut = 0)

\* C8 witness: the query raised DatabaseError, rollback raised in turn, and
\* the call ended with the connection closed once.
C8_Witness ==
    /\ rfr.done
    /\ rfr.bodyRaised = "DatabaseError"
    /\ conn.rollbacks = 1
    /\ rfr.raised = "MySQLError"
    /\ conn.acquired = 1
    /\ conn.closes = 1

\* C9: an error raised by the database driver while the connection is checked
\* out triggers a rollback, then is re-raised; commit is not called.
C9_DriverErrorRollsBack ==
    (rfr.done /\ rfr.bodyRaised \in DriverErrors) =>
        /\ conn.rollbacks = 1
        /\ conn.commits = 0
        /\ rfr.raised # "None"

\* C10 as claimed: return_function_rows without a pool acquires nothing and
\* raises nothing.
C10_UseBeforeInitIsSilent ==
    (rfr.done /\ rfr.poolWasNone) =>
        /\ conn.acquired = 0
        /\ rfr.raised = "None"

\* C10, amended: return_function_rows without a pool acquires nothing and
\* raises RuntimeError to its caller instead of returning rows.
C10_UseBeforeInitRaises ==
    (rfr.done /\ rfr.poolWasNone) =>
        /\ conn.acquired = 0
        /\ checkedOut = 0
        /\ rfr.raised = "RuntimeError"
        /\ ~rfr.returned

\* C10 witness: a call made before any pool existed has ended.
C10_Witness ==
    /\ rfr.done
    /\ rfr.poolWasNone
    /\ _POOL = "None"
    /\ constructed = 0

(***************************************************************************)
(* Properties of pool initialisation (under Spec).                         *)
(***************************************************************************)
\* The pool exists exactly when it has been constructed, and that happened
\* at most once.
C11_AtMostOnce ==
    /\ constructed <= 1
    /\ (_POOL = "None") <=> (constructed = 0)

\* A step leaves an existing pool as it is; a construction starts from no
\* pool; an init_pool call that raises leaves no pool.
C11_Step ==
    /\ _POOL # "None" => (_POOL' = _POOL /\ constructed' = constructed)
    /\ constructed' # constructed =>
          (_POOL = "None" /\ _POOL' # "None" /\ constructed' = constructed + 1)
    /\ (cycles' # cycles /\ caller' = "init" /\ result' = "MySQLError") =>
          _POOL' = "None"
    /\ (cycles' # cycles /\ caller' = "handler" /\ exc' = "MySQLError") =>
          _POOL' = "None"

\* C11: pool initialisation is idempotent over any sequence of invocations:
\* the pool is constructed at most once, an init_pool call after a successful
\* construction leaves the handle unchanged whatever db_config it is given,
\* and a call whose construction raises leaves the handle unset, so that a
\* later call constructs it.
C11_PoolInitIdempotent == [](C11_AtMostOnce) /\ [][C11_Step]_vars

\* C11 witness: a handler invocation's construction raised, and a later
\* init_pool call, given another db_config, constructed the pool.
C11_Witness ==
    /\ initFailed
    /\ constructed = 1
    /\ caller = "init"
    /\ _POOL = "db_other"

(***************************************************************************)
(* The error rate (under SpecEval).                                        *)
(***************************************************************************)
\* A row that fails a check: its counts differ or its status is no success.
Flagged(row) == Mismatched(row) \/ row.status \notin SuccessForms

\* C12: for a non-empty row set the error rate threshold_checker computes from
\* query_parser's output is (flagged rows) / (rows) and lies in [0, 1]:
\* there are never more entries than rows, and the rate is 1 exactly when
\* every row is flagged.
C12_RateIsFlaggedOverTotal ==
    /\ Parsed => Len(errored_rows) <= Len(query_result)
    /\ (pc = "eval_checked" /\ Len(query_result) > 0) =>
          /\ lastCheck.ne = Count(query_result, Flagged)
          /\ lastCheck.nq = Len(query_result)
          /\ 0 <= lastCheck.ne /\ lastCheck.ne <= lastCheck.nq
          /\ (lastCheck.ne = lastCheck.nq) <=>
                (\A i \in DOMAIN query_result : Flagged(query_result[i]))

\* C12 witness: two rows, the first failing both checks and the second
\* passing, gave the rate 1/2.
C12_Witness ==
    /\ pc = "eval_checked"
    /\ Len(query_result) = 2
    /\ Mismatched(query_result[1])
    /\ query_result[1].status = <<"F","A","I","L">>
    /\ ~Flagged(query_result[2])
    /\ lastCheck.ne = 1
    /\ lastCheck.nq = 2

====
